---- MODULE Spec2Model ----
(***************************************************************************)
(* Hospital management system: the appointment ledger, the availability   *)
(* store and the treatment records, as the Flask routes of the repository *)
(* read and write them (app/routes/patient.py, app/routes/doctor.py,      *)
(* app/routes/admin.py, instance/app/routes/api.py, app/models.py).       *)
(*                                                                         *)
(* Dates are day numbers, times are minutes since midnight, and a         *)
(* datetime is date * 1440 + time.  Rows of a table are records; the      *)
(* appointments and treatments tables are sequences whose index is the    *)
(* integer primary key (rows of these tables are never deleted); the      *)
(* availability table is a set of rows that carry their id.               *)
(*                                                                         *)
(* A request is served in steps, one for each statement it sends to the   *)
(* database.  Its first step is the arrival: the user loader, the         *)
(* decorators of the route and the code before the route's first SELECT.  *)
(* Each later step is one SELECT with the code that follows it up to the  *)
(* next statement: the route tests the rows the SELECT returned and, after *)
(* its last SELECT, changes objects in its own session.  A request is     *)
(* answered in the step after which it sends no further statement.        *)
(* db.session.commit() is one step: it sends the session's INSERT, UPDATE *)
(* and DELETE statements to the database as it is then and the COMMIT;    *)
(* the write lock SQLite holds from the first of these statements to the  *)
(* COMMIT keeps every other writer out, and readers see none of them      *)
(* before the COMMIT.  A route that reads an attribute of its object      *)
(* after the commit sends one more SELECT (the session expires its        *)
(* objects at a commit), and a route that renders its form again after a  *)
(* refusal or a failed commit sends the SELECTs of that form first.  No   *)
(* transaction spans the SELECTs, and nothing (no lock, no version        *)
(* column, no unique index) ties the steps together, so the steps of two  *)
(* requests interleave.                                                    *)
(***************************************************************************)
EXTENDS Integers, Sequences, FiniteSets, Bags, TLC

\* ---------------------------------------------------------------- bounds
NumDoctors == 2
NumPatients == 2
MaxAppointments == 2
MaxTreatments == 2
MaxAvailability == 2
MaxDate == 1
MaxTicks == 2
NumWorkers == 2

\* timedelta(hours=2) of the patient's cancel window, in minutes
CancelWindow == 120

MinutesPerDay == 24 * 60
\* the clock starts on day 1 at 06:59
StartNow == MinutesPerDay + (6 * 60) + 59

Doctors == 1..NumDoctors
Patients == 1..NumPatients
\* dates a request may carry: day 0 is in the past when the clock starts
Dates == 0..MaxDate
\* appointment times a request may carry: 09:00 and 10:00
Times == {9 * 60, 10 * 60}
\* follow_up_date absent from the form
NoDate == 0 - 1

PatientActors == [role : {"patient"}, id : Patients]
DoctorActors == [role : {"doctor"}, id : Doctors]
AdminActors == [role : {"admin"}, id : {1}]
Actors == PatientActors \cup DoctorActors \cup AdminActors

\* the four statuses of the ledger's state machine
Statuses == {"booked", "confirmed", "completed", "cancelled"}
\* values a request may carry in a JSON "status" field: the four statuses,
\* the legacy label of the column default, and a value no route knows
StatusInputs == Statuses \cup {"pending", "archived"}
\* follow_up_date form field: absent or a date
FollowUpDates == {NoDate, MaxDate}
\* diagnosis form field: empty or filled
DiagnosisInputs == {"", "flu"}
\* the reason a book request carries, and the one a JSON update may carry
BookReason == "checkup"
NewReason == "moved"

VARIABLES
    appointments,   \* table appointments: Seq of rows, id = index
    treatments,     \* table treatments: Seq of rows, id = index
    availability,   \* table doctor_availability: set of rows with their id
    doctor_active,  \* doctors.is_active, per doctor id
    patient_active, \* patients.is_active, per patient id
    now,            \* the wall clock, in minutes
    inflight,       \* the bag of requests waiting for their commit
    last            \* the last request answered: its route, its answer, who asked

vars == <<appointments, treatments, availability, doctor_active, patient_active,
          now, inflight, last>>

\* date.today() / datetime.today().date()
Today == now \div MinutesPerDay

\* datetime.combine(date, time)
Combine(d, t) == (d * MinutesPerDay) + t

AppointmentIds == 1..Len(appointments)
AvailabilityIds == {s.id : s \in availability}

\* ------------------------------------------------------------- rows
\* Appointment(...) as the routes construct it; updated_at takes its column
\* default datetime.utcnow when the INSERT is sent
NewAppointment(patient, doctor, d, t, reason) ==
    [patient_id |-> patient, doctor_id |-> doctor, appointment_date |-> d,
     appointment_time |-> t, status |-> "booked", reason |-> reason,
     updated_at |-> now]

\* DoctorAvailability(...) as add_availability constructs it; is_available
\* takes its column default True, and the id is given by the INSERT
NewAvailability(doctor, d, start, end) ==
    [id |-> 0, doctor_id |-> doctor, available_date |-> d, start_time |-> start,
     end_time |-> end, is_available |-> TRUE]

\* Treatment(...) as complete_appointment constructs it: follow_up_date is
\* stored only "if follow_up_date and follow_up_required"
NewTreatment(id, diagnosis, follow_up_required, follow_up_date) ==
    [appointment_id |-> id, diagnosis |-> diagnosis,
     follow_up_required |-> follow_up_required,
     follow_up_date |-> IF follow_up_date # NoDate /\ follow_up_required
                        THEN follow_up_date ELSE NoDate]

\* the routes of the model
BookOps == {"book_appointment", "api_appointments_post"}
ApiOps == {"api_appointments_post", "api_appointment_detail_put",
           "api_appointment_detail_delete"}
Ops == BookOps \cup ApiOps \cup
       {"patient_cancel_appointment", "reschedule_appointment",
        "complete_appointment", "doctor_cancel_appointment", "confirm_appointment",
        "add_availability", "delete_availability",
        "update_appointment_status", "toggle_doctor_status",
        "toggle_patient_status"}

\* the HTTP status api.appointments gives an outcome
ApiBookStatus(res) ==
    IF res = "RoleDenied" THEN 403 ELSE IF res = "ok" THEN 201 ELSE 400

\* the HTTP status of an answer: 0 for the web routes, which answer with a
\* page; on the JSON API the redirect of login_manager.login_view for a
\* request that is not logged in, 500 from the except branches, and the
\* status each jsonify carries
HttpStatus(op, res) ==
    IF op \notin ApiOps THEN 0
    ELSE IF res = "LoginRequired" THEN 302
    ELSE IF res = "StoreFailure" THEN 500
    ELSE IF op = "api_appointments_post" THEN ApiBookStatus(res)
    ELSE IF res = "AccessDenied" THEN 403
    ELSE IF res = "ok" THEN 200
    ELSE 400

\* the answer slot before any request has been answered
Answer(op, res, http) == [op |-> op, res |-> res, http |-> http, role |-> "none"]

\* the answer of a request: its route, its outcome, its HTTP status, and the
\* role of current_user
AnswerTo(actor, op, res) ==
    [op |-> op, res |-> res, http |-> HttpStatus(op, res), role |-> actor.role]

\* ------------------------------------------------- the session's writes
\* one pending statement of a session: INSERT of row, UPDATE of the columns
\* cols of row id, or DELETE of row id
Write(table, kind, id, row, cols) ==
    [table |-> table, kind |-> kind, id |-> id, row |-> row, cols |-> cols]

Insert(table, row) == Write(table, "insert", 0, row, <<>>)
Delete(table, id) == Write(table, "delete", id, <<>>, <<>>)

\* the columns of an UPDATE: the attributes the route assigned whose value
\* differs from the loaded one (explicit lists attributes that always count
\* as changed: updated_at = datetime.utcnow() never equals the stored value)
ChangedCols(loaded, assigned, explicit) ==
    LET keep == {c \in DOMAIN assigned : c \in explicit \/ assigned[c] # loaded[c]}
    IN [c \in keep |-> assigned[c]]

\* the UPDATE of an object the route assigned to, or nothing when no
\* attribute has a new value
Update(table, id, loaded, assigned, explicit) ==
    LET cols == ChangedCols(loaded, assigned, explicit)
    IN IF DOMAIN cols = {} THEN <<>>
       ELSE <<Write(table, "update", id, <<>>, cols)>>

\* the table of a route's first SELECT after the user loader
FirstSelect(op) ==
    IF op \in BookOps \cup {"toggle_doctor_status"} THEN "doctors"
    ELSE IF op = "toggle_patient_status" THEN "patients"
    ELSE IF op \in {"add_availability", "delete_availability"}
    THEN "doctor_availability"
    ELSE "appointments"

\* a request that has arrived: the route, current_user, the arguments of
\* the request, the time it arrived, the statement it sends next (pc), the
\* row it has loaded, the statements its commit sends, the statement that
\* follows its commit (then), the answer it has flashed so far (res) and the
\* number of commits it has made
Request(op, actor, args) ==
    [op |-> op, actor |-> actor, args |-> args, at |-> now,
     pc |-> FirstSelect(op), loaded |-> <<>>, writes |-> <<>>,
     then |-> "done", res |-> "ok", commits |-> 0]

\* the requests being served
Pending == BagToSet(inflight)

\* whether a session holds an INSERT for a table
HasInsert(writes, table) ==
    \E k \in 1..Len(writes) :
        writes[k].table = table /\ writes[k].kind = "insert"

\* the INSERTs waiting in the sessions for a table
PendingInserts(table) ==
    BagCardinality([r \in {q \in Pending : HasInsert(q.writes, table)}
                       |-> inflight[r]])

\* the rows the model lets the tables grow to: a session takes up an INSERT
\* only while its table, with the INSERTs that wait, is below its bound
Room(writes) ==
    /\ HasInsert(writes, "appointments")
       => Len(appointments) + PendingInserts("appointments") < MaxAppointments
    /\ HasInsert(writes, "treatments")
       => Len(treatments) + PendingInserts("treatments") < MaxTreatments
    /\ HasInsert(writes, "doctor_availability")
       => Cardinality(availability) + PendingInserts("doctor_availability")
              < MaxAvailability

\* what one step of a request gives: the request returns its answer
Replies(res) ==
    [res |-> res, pc |-> "done", loaded |-> <<>>, writes |-> <<>>, then |-> "done"]

\* a guard refuses the request, which returns at once
Refused(res) == Replies(res)

\* the request goes on to its next SELECT, holding the row it loaded
GoesOn(pc, loaded) ==
    [res |-> "ok", pc |-> pc, loaded |-> loaded, writes |-> <<>>, then |-> "done"]

\* the request has flashed its answer and goes on to the SELECTs of the
\* form it renders again
Renders(res, pc, loaded) ==
    [res |-> res, pc |-> pc, loaded |-> loaded, writes |-> <<>>, then |-> "done"]

\* the request has reached db.session.commit() with these statements, and
\* sends the statement at pc after the commit
FlushesThen(writes, pc) ==
    [res |-> "ok", pc |-> "commit", loaded |-> <<>>, writes |-> writes, then |-> pc]

\* the request has reached db.session.commit() with these statements, and
\* returns after it
Flushes(writes) == FlushesThen(writes, "done")

\* where the except branch of a route goes after db.session.rollback():
\* patient.book_appointment falls through to the availability listing of
\* its form, patient.reschedule_appointment to the listing of its form, which
\* reads appointment.doctor_id of the expired row first; the other routes
\* return (doctor.complete_appointment with the page of its form, for which
\* the route sends no statement)
FailurePc(op) ==
    IF op = "book_appointment" THEN "doctor_availability#list"
    ELSE IF op = "reschedule_appointment" THEN "appointments#reload"
    ELSE "done"

\* ApplyCols without the onupdate of the updated_at column
ApplyCols_NoOnupdate(row, cols) ==
    [c \in DOMAIN row |-> IF c \in DOMAIN cols THEN cols[c] ELSE row[c]]

\* UPDATE ... SET cols WHERE id = ...: the named columns take their values,
\* and updated_at, when the statement does not name it, takes its onupdate
\* value datetime.utcnow (models.py 161)
ApplyCols(row, cols) ==
    [c \in DOMAIN row |->
        IF c \in DOMAIN cols THEN cols[c]
        ELSE IF c = "updated_at" THEN now
        ELSE row[c]]

\* the statement w applied to the rows of a table kept as a sequence
ApplyToSeq(rows, w) ==
    IF w.kind = "insert"
    THEN Append(rows, IF "updated_at" \in DOMAIN w.row
                      THEN [w.row EXCEPT !.updated_at = now] ELSE w.row)
    ELSE IF w.kind = "update" /\ w.id \in 1..Len(rows)
    THEN [rows EXCEPT ![w.id] = ApplyCols(@, w.cols)]
    ELSE rows

\* the id SQLite gives an inserted row: one more than the largest in the table
NextId(rows) ==
    IF rows = {} THEN 1
    ELSE 1 + (CHOOSE m \in {s.id : s \in rows} : \A s \in rows : s.id <= m)

\* the statement w applied to the rows of a table kept as a set; a DELETE
\* that matches no row only warns
ApplyToSet(rows, w) ==
    IF w.kind = "insert" THEN rows \cup {[w.row EXCEPT !.id = NextId(rows)]}
    ELSE IF w.kind = "delete" THEN {s \in rows : s.id # w.id}
    ELSE rows

\* CommitAppointments deleting the row an UPDATE marks as cancelled
CommitAppointments_DeletesCancelled(rows, ws) ==
    LET mine == SelectSeq(ws, LAMBDA w : w.table = "appointments")
    IN IF mine = <<>> THEN rows
       ELSE IF /\ mine[1].kind = "update"
               /\ "status" \in DOMAIN mine[1].cols
               /\ mine[1].cols.status = "cancelled"
       THEN [i \in 1..(Len(rows) - 1) |->
                IF i < mine[1].id THEN rows[i] ELSE rows[i + 1]]
       ELSE ApplyToSeq(rows, mine[1])

\* the appointments table after the session's statements (a request writes
\* at most one appointment)
CommitAppointments(rows, ws) ==
    LET mine == SelectSeq(ws, LAMBDA w : w.table = "appointments")
    IN IF mine = <<>> THEN rows ELSE ApplyToSeq(rows, mine[1])

\* CommitTreatments discarding the Treatment rows of an appointment that an
\* UPDATE moves back to confirmed
CommitTreatments_DropsReopened(rows, ws) ==
    LET mine == SelectSeq(ws, LAMBDA w : w.table = "treatments")
        reopened == {w.id : w \in {ws[k] : k \in 1..Len(ws)} \cap
                        {ws[k] : k \in {j \in 1..Len(ws) :
                            /\ ws[j].table = "appointments"
                            /\ ws[j].kind = "update"
                            /\ "status" \in DOMAIN ws[j].cols
                            /\ ws[j].cols.status = "confirmed"}}}
        kept == SelectSeq(rows, LAMBDA row : row.appointment_id \notin reopened)
    IN IF mine = <<>> THEN kept ELSE ApplyToSeq(kept, mine[1])

\* the treatments table after the session's statements
CommitTreatments(rows, ws) ==
    LET mine == SelectSeq(ws, LAMBDA w : w.table = "treatments")
    IN IF mine = <<>> THEN rows ELSE ApplyToSeq(rows, mine[1])

\* the doctor_availability table after the session's statements
CommitAvailability(rows, ws) ==
    LET mine == SelectSeq(ws, LAMBDA w : w.table = "doctor_availability")
    IN IF mine = <<>> THEN rows ELSE ApplyToSet(rows, mine[1])

\* doctors.is_active after the session's statements
CommitDoctors(active, ws) ==
    LET mine == SelectSeq(ws, LAMBDA w : w.table = "doctors")
    IN IF mine = <<>> THEN active
       ELSE [active EXCEPT ![mine[1].id] = mine[1].cols.is_active]

\* patients.is_active after the session's statements
CommitPatients(active, ws) ==
    LET mine == SelectSeq(ws, LAMBDA w : w.table = "patients")
    IN IF mine = <<>> THEN active
       ELSE [active EXCEPT ![mine[1].id] = mine[1].cols.is_active]

\* db.session.rollback() after a commit that raised: the statements the
\* commit had sent (pending is the table with them applied) are undone, and
\* the persisted rows are those before the commit
Rollback(before, pending) == before

\* --------------------------------------------------------- queries
\* OpenSlots with the slot's end compared by >= instead of >
OpenSlots_EndInclusive(doctor, d, t) ==
    {s \in availability :
        /\ s.doctor_id = doctor
        /\ s.available_date = d
        /\ s.start_time <= t
        /\ s.end_time >= t
        /\ s.is_available}

\* DoctorAvailability.query.filter(doctor_id ==, available_date ==,
\*   start_time <= time, end_time > time, is_available == True).first()
OpenSlots(doctor, d, t) ==
    {s \in availability :
        /\ s.doctor_id = doctor
        /\ s.available_date = d
        /\ s.start_time <= t
        /\ s.end_time > t
        /\ s.is_available}

\* BookedAt with the conflict query filtering on the column default 'pending'
\* instead of the status the routes store
BookedAt_Pending(doctor, d, t) ==
    {i \in AppointmentIds :
        /\ appointments[i].doctor_id = doctor
        /\ appointments[i].appointment_date = d
        /\ appointments[i].appointment_time = t
        /\ appointments[i].status = "pending"}

\* BookedAt with the conflict query missing its status filter
BookedAt_AnyStatus(doctor, d, t) ==
    {i \in AppointmentIds :
        /\ appointments[i].doctor_id = doctor
        /\ appointments[i].appointment_date = d
        /\ appointments[i].appointment_time = t}

\* Appointment.query.filter(doctor_id ==, appointment_date ==,
\*   appointment_time ==, status == 'booked').first()
BookedAt(doctor, d, t) ==
    {i \in AppointmentIds :
        /\ appointments[i].doctor_id = doctor
        /\ appointments[i].appointment_date = d
        /\ appointments[i].appointment_time = t
        /\ appointments[i].status = "booked"}

\* BookedAtExcept without "Appointment.id != appointment_id"
BookedAtExcept_CountsSelf(doctor, d, t, id) == BookedAt(doctor, d, t)

\* Appointment.query.filter(..., status == 'booked', id != appointment_id)
BookedAtExcept(doctor, d, t, id) == BookedAt(doctor, d, t) \ {id}

\* PatientCancelOutcome with the window compared by < instead of <=
PatientCancelOutcome_WindowInclusive(actor, id) ==
    IF appointments[id].patient_id # actor.id THEN "NotOwner"
    ELSE IF appointments[id].status # "booked" THEN "InvalidTransition"
    ELSE IF Combine(appointments[id].appointment_date,
                    appointments[id].appointment_time)
                < now + CancelWindow THEN "TooLateToCancel"
    ELSE "ok"

\* the guards of patient.cancel_appointment
PatientCancelOutcome(actor, id) ==
    IF appointments[id].patient_id # actor.id THEN "NotOwner"
    ELSE IF appointments[id].status # "booked" THEN "InvalidTransition"
    ELSE IF Combine(appointments[id].appointment_date,
                    appointments[id].appointment_time)
                <= now + CancelWindow THEN "TooLateToCancel"
    ELSE "ok"

\* OpenStatuses with 'cancelled' listed among the statuses that may be cancelled
OpenStatuses_WithCancelled == {"scheduled", "confirmed", "pending", "booked", "cancelled"}

\* status in ['scheduled', 'confirmed', 'pending', 'booked']
OpenStatuses == {"scheduled", "confirmed", "pending", "booked"}

\* CompleteOutcome without the "if not diagnosis" check
CompleteOutcome_NoDiagnosisCheck(actor, id, diagnosis) ==
    IF appointments[id].doctor_id # actor.id THEN "NotAssignedDoctor"
    ELSE IF appointments[id].status \notin {"scheduled", "confirmed", "pending", "booked"}
         THEN "NotCompletable"
    ELSE "ok"

\* the guards of doctor.complete_appointment, in the order of the route
CompleteOutcome(actor, id, diagnosis) ==
    IF appointments[id].doctor_id # actor.id THEN "NotAssignedDoctor"
    ELSE IF appointments[id].status \notin OpenStatuses THEN "NotCompletable"
    ELSE IF diagnosis = "" THEN "MissingDiagnosis"
    ELSE "ok"

\* DoctorCancelOutcome with the patient's two-hour window added
DoctorCancelOutcome_Windowed(actor, id) ==
    IF appointments[id].doctor_id # actor.id THEN "NotAssignedDoctor"
    ELSE IF appointments[id].status \notin OpenStatuses THEN "InvalidTransition"
    ELSE IF Combine(appointments[id].appointment_date,
                    appointments[id].appointment_time)
                <= now + CancelWindow THEN "TooLateToCancel"
    ELSE "ok"

\* the guards of doctor.cancel_appointment
DoctorCancelOutcome(actor, id) ==
    IF appointments[id].doctor_id # actor.id THEN "NotAssignedDoctor"
    ELSE IF appointments[id].status \notin OpenStatuses THEN "InvalidTransition"
    ELSE "ok"

\* doctor.confirm_appointment: filter_by(id, doctor_id).first_or_404(); the
\* status is not tested
ConfirmOutcome(actor, id) ==
    IF appointments[id].doctor_id # actor.id THEN "NotFound"
    ELSE "ok"

\* DoctorAvailability.query.filter(doctor_id ==, available_date ==,
\*   or_(and_(start_time <= start, end_time > start),
\*       and_(start_time < end, end_time >= end))).first()
OverlappingSlots(doctor, d, start, end) ==
    {s \in availability :
        /\ s.doctor_id = doctor
        /\ s.available_date = d
        /\ \/ (s.start_time <= start /\ s.end_time > start)
           \/ (s.start_time < end /\ s.end_time >= end)}

\* AddAvailabilityForm without the "start_time_obj >= end_time_obj" check
AddAvailabilityForm_NoRangeCheck(d, start, end) ==
    IF d < Today THEN "PastDate" ELSE "ok"

\* the checks of doctor.add_availability on the form, before its SELECT
AddAvailabilityForm(d, start, end) ==
    IF start >= end THEN "InvalidRange"
    ELSE IF d < Today THEN "PastDate"
    ELSE "ok"

\* the row of doctor_availability with a given id
SlotById(id) == CHOOSE s \in availability : s.id = id

\* the guards of doctor.delete_availability: get_or_404, then the owner
DeleteAvailabilityOutcome(actor, id) ==
    IF id \notin AvailabilityIds THEN "NotFound"
    ELSE IF SlotById(id).doctor_id # actor.id THEN "NotOwner"
    ELSE "ok"

\* an open appointment of the slot's doctor inside the slot, if there is one
AppointmentsInside(slot) ==
    {i \in AppointmentIds :
        /\ appointments[i].doctor_id = slot.doctor_id
        /\ appointments[i].appointment_date = slot.available_date
        /\ slot.start_time <= appointments[i].appointment_time
        /\ appointments[i].appointment_time < slot.end_time
        /\ appointments[i].status \in OpenStatuses}

\* DeleteAvailabilityWrites cancelling an open appointment that lies in the
\* slot it deletes
DeleteAvailabilityWrites_CancelsAppointment(id) ==
    LET inside == AppointmentsInside(SlotById(id))
        i == CHOOSE i \in inside : TRUE
    IN <<Delete("doctor_availability", id)>>
       \o (IF inside = {} THEN <<>>
           ELSE Update("appointments", i, appointments[i],
                       [status |-> "cancelled"], {}))

\* db.session.delete(availability)
DeleteAvailabilityWrites(id) == <<Delete("doctor_availability", id)>>

\* ApiAccessDenied without the doctor's branch
ApiAccessDenied_PatientOnly(actor, id) ==
    actor.role = "patient" /\ appointments[id].patient_id # actor.id

\* ApiAccessDenied without the patient's branch
ApiAccessDenied_DoctorOnly(actor, id) ==
    actor.role = "doctor" /\ appointments[id].doctor_id # actor.id

\* the access check at the top of api.appointment_detail
ApiAccessDenied(actor, id) ==
    \/ actor.role = "patient" /\ appointments[id].patient_id # actor.id
    \/ actor.role = "doctor" /\ appointments[id].doctor_id # actor.id

\* g's entries over f's
Merge(f, g) ==
    [c \in (DOMAIN f) \cup (DOMAIN g) |-> IF c \in DOMAIN g THEN g[c] ELSE f[c]]

\* PutAssigned with the status branch open to every role
PutAssigned_AnyRole(actor, id, body) ==
    Merge(IF /\ "status" \in DOMAIN body
             /\ body.status \in {"completed", "cancelled"}
             /\ appointments[id].status = "booked"
          THEN [status |-> body.status, updated_at |-> now] ELSE <<>>,
          IF "reason" \in DOMAIN body /\ actor.role \in {"patient", "admin"}
          THEN [reason |-> body.reason] ELSE <<>>)

\* PutAssigned without the "new_status in ['completed', 'cancelled']" test
PutAssigned_AnyNewStatus(actor, id, body) ==
    Merge(IF /\ "status" \in DOMAIN body
             /\ actor.role \in {"doctor", "admin"}
             /\ appointments[id].status = "booked"
          THEN [status |-> body.status, updated_at |-> now] ELSE <<>>,
          IF "reason" \in DOMAIN body /\ actor.role \in {"patient", "admin"}
          THEN [reason |-> body.reason] ELSE <<>>)

\* the attributes the PUT branch of api.appointment_detail assigns: status
\* and updated_at for a doctor or admin moving a booked appointment to
\* completed or cancelled, reason for a patient or admin
PutAssigned(actor, id, body) ==
    Merge(IF /\ "status" \in DOMAIN body
             /\ actor.role \in {"doctor", "admin"}
             /\ body.status \in {"completed", "cancelled"}
             /\ appointments[id].status = "booked"
          THEN [status |-> body.status, updated_at |-> now] ELSE <<>>,
          IF "reason" \in DOMAIN body /\ actor.role \in {"patient", "admin"}
          THEN [reason |-> body.reason] ELSE <<>>)

\* ------------------------------------------------- login and decorators
\* RequiredRole with patient.book_appointment open to every role
RequiredRole_BookAnyRole(op) ==
    IF op \in {"api_appointments_post", "patient_cancel_appointment",
               "reschedule_appointment"} THEN "patient"
    ELSE IF op \in {"complete_appointment", "doctor_cancel_appointment",
                    "confirm_appointment", "add_availability",
                    "delete_availability"} THEN "doctor"
    ELSE IF op \in {"update_appointment_status", "toggle_doctor_status",
                    "toggle_patient_status"} THEN "admin"
    ELSE "any"

\* the role a route demands: by its decorator patient_required,
\* doctor_required or admin_required, or by its first test (api.appointments,
\* POST: "Only patients can book appointments"); api.appointment_detail is
\* open to every logged-in user
RequiredRole(op) ==
    IF op \in {"book_appointment", "api_appointments_post",
               "patient_cancel_appointment", "reschedule_appointment"} THEN "patient"
    ELSE IF op \in {"complete_appointment", "doctor_cancel_appointment",
                    "confirm_appointment", "add_availability",
                    "delete_availability"} THEN "doctor"
    ELSE IF op \in {"update_appointment_status", "toggle_doctor_status",
                    "toggle_patient_status"} THEN "admin"
    ELSE "any"

\* the routes behind doctor_required or admin_required
StaffOps == {op \in Ops : RequiredRole(op) \in {"doctor", "admin"}}

\* @login_required on the user the loader has read.  The models define
\* is_active as a column, and whether current_user.is_authenticated follows
\* it depends on the Flask-Login release the build installs (the repository
\* pins none): a deactivated doctor or patient is sent to the login page by
\* some builds and served by the others.  No route changes the is_active of
\* an admin.
LoginAnswers(actor) ==
    IF \/ actor.role = "doctor" /\ ~doctor_active[actor.id]
       \/ actor.role = "patient" /\ ~patient_active[actor.id]
    THEN {"LoginRequired", "ok"}
    ELSE {"ok"}

\* the code of a request before its first SELECT on the tables: the login
\* check, the role check, and for doctor.add_availability the form checks
Entry(actor, op, args, login) ==
    IF login # "ok" THEN login
    ELSE IF RequiredRole(op) # "any" /\ actor.role # RequiredRole(op) THEN "RoleDenied"
    ELSE IF op = "add_availability"
    THEN AddAvailabilityForm(args.d, args.start, args.end)
    ELSE "ok"

\* ------------------------------------------------- the SELECTs of a route
\* patient.book_appointment and api.appointments, POST: the doctor row and
\* the date check, the availability query, the conflict query and the
\* Appointment(...) the route adds to its session.  After its commit
\* api.appointments reads appointment.id, which the commit has expired, for
\* its 201 answer; after a commit that raised, patient.book_appointment
\* sends the availability listing and the departments query of its form
BookSelect(r) ==
    LET a == r.args
    IN IF r.pc = "doctors"
       THEN IF ~doctor_active[a.doctor] THEN Refused("DoctorInactive")
            ELSE IF a.d < Today THEN Refused("PastDate")
            ELSE GoesOn("doctor_availability", <<>>)
       ELSE IF r.pc = "doctor_availability"
       THEN IF OpenSlots(a.doctor, a.d, a.t) = {} THEN Refused("NoAvailability")
            ELSE GoesOn("appointments", <<>>)
       ELSE IF r.pc = "appointments"
       THEN IF BookedAt(a.doctor, a.d, a.t) # {} THEN Refused("SlotTaken")
            ELSE FlushesThen(<<Insert("appointments",
                                      NewAppointment(r.actor.id, a.doctor, a.d,
                                                     a.t, a.reason))>>,
                             IF r.op = "api_appointments_post" THEN "refresh"
                             ELSE "done")
       ELSE IF r.pc = "doctor_availability#list"
       THEN Renders(r.res, "departments", <<>>)
       ELSE Replies(r.res)

\* patient.reschedule_appointment, POST: the appointment row with the owner,
\* status and date checks, the availability query for the row's doctor, the
\* conflict query and the assignments to the row as it was loaded.  A
\* refusal by the date check, the availability query or the conflict query
\* flashes its message and sends the availability listing of the form before
\* it returns; after a commit that raised, the route reads
\* appointment.doctor_id of the expired row and sends the same listing
RescheduleSelect(r) ==
    LET a == r.args
    IN IF r.pc = "appointments"
       THEN IF appointments[a.id].patient_id # r.actor.id THEN Refused("NotOwner")
            ELSE IF appointments[a.id].status # "booked"
            THEN Refused("InvalidTransition")
            ELSE IF a.d < Today
            THEN Renders("PastDate", "doctor_availability#list", <<>>)
            ELSE GoesOn("doctor_availability", appointments[a.id])
       ELSE IF r.pc = "doctor_availability"
       THEN IF OpenSlots(r.loaded.doctor_id, a.d, a.t) = {}
            THEN Renders("NoAvailability", "doctor_availability#list", <<>>)
            ELSE GoesOn("appointments#2", r.loaded)
       ELSE IF r.pc = "appointments#2"
       THEN IF BookedAtExcept(r.loaded.doctor_id, a.d, a.t, a.id) # {}
            THEN Renders("SlotTaken", "doctor_availability#list", <<>>)
            ELSE Flushes(Update("appointments", a.id, r.loaded,
                                [appointment_date |-> a.d,
                                 appointment_time |-> a.t,
                                 updated_at |-> now], {"updated_at"}))
       ELSE IF r.pc = "appointments#reload"
       THEN Renders(r.res, "doctor_availability#list", <<>>)
       ELSE Replies(r.res)

\* patient.cancel_appointment: the appointment row, its guards and its
\* assignments
PatientCancelSelect(r) ==
    LET id == r.args.id
        res == PatientCancelOutcome(r.actor, id)
    IN IF res # "ok" THEN Refused(res)
       ELSE Flushes(Update("appointments", id, appointments[id],
                           [status |-> "cancelled", updated_at |-> now],
                           {"updated_at"}))

\* CompleteSelect committing appointment.status on its own, before
\* db.session.add(treatment) and a second commit
CompleteSelect_CommitsTwice(r) ==
    LET a == r.args
        res == CompleteOutcome(r.actor, a.id, a.diagnosis)
    IN IF r.pc = "treatments"
       THEN Flushes(<<Insert("treatments",
                             NewTreatment(a.id, a.diagnosis,
                                          a.follow_up_required,
                                          a.follow_up_date))>>)
       ELSE IF res # "ok" THEN Refused(res)
       ELSE FlushesThen(Update("appointments", a.id, appointments[a.id],
                               [status |-> "completed", updated_at |-> now],
                               {"updated_at"}),
                        "treatments")

\* doctor.complete_appointment, POST: the appointment row, its guards, its
\* assignments and db.session.add(treatment)
CompleteSelect(r) ==
    LET a == r.args
        res == CompleteOutcome(r.actor, a.id, a.diagnosis)
    IN IF res # "ok" THEN Refused(res)
       ELSE Flushes(Update("appointments", a.id, appointments[a.id],
                           [status |-> "completed", updated_at |-> now],
                           {"updated_at"})
                    \o <<Insert("treatments",
                                NewTreatment(a.id, a.diagnosis,
                                             a.follow_up_required,
                                             a.follow_up_date))>>)

\* doctor.cancel_appointment: the appointment row, its guards and its
\* assignments
DoctorCancelSelect(r) ==
    LET id == r.args.id
        res == DoctorCancelOutcome(r.actor, id)
    IN IF res # "ok" THEN Refused(res)
       ELSE Flushes(Update("appointments", id, appointments[id],
                           [status |-> "cancelled", updated_at |-> now],
                           {"updated_at"}))

\* doctor.confirm_appointment: the appointment row and its assignment
ConfirmSelect(r) ==
    LET id == r.args.id
        res == ConfirmOutcome(r.actor, id)
    IN IF res # "ok" THEN Refused(res)
       ELSE Flushes(Update("appointments", id, appointments[id],
                           [status |-> "confirmed"], {}))

\* doctor.add_availability: the overlap query and db.session.add
AddAvailabilitySelect(r) ==
    LET a == r.args
    IN IF OverlappingSlots(r.actor.id, a.d, a.start, a.end) # {}
       THEN Refused("Overlap")
       ELSE Flushes(<<Insert("doctor_availability",
                             NewAvailability(r.actor.id, a.d, a.start, a.end))>>)

\* doctor.delete_availability: the slot row, its guards and db.session.delete
DeleteAvailabilitySelect(r) ==
    LET id == r.args.id
        res == DeleteAvailabilityOutcome(r.actor, id)
    IN IF res # "ok" THEN Refused(res)
       ELSE Flushes(DeleteAvailabilityWrites(id))

\* api.appointment_detail, PUT: the appointment row, the access check and
\* the assignments; args.body is the JSON object of the request
ApiPutSelect(r) ==
    LET a == r.args
    IN IF ApiAccessDenied(r.actor, a.id) THEN Refused("AccessDenied")
       ELSE IF DOMAIN a.body = {} THEN Refused("NoData")
       ELSE Flushes(Update("appointments", a.id, appointments[a.id],
                           PutAssigned(r.actor, a.id, a.body), {"updated_at"}))

\* api.appointment_detail, DELETE: the appointment row, the access check,
\* the status test and the assignments
ApiDeleteSelect(r) ==
    LET id == r.args.id
    IN IF ApiAccessDenied(r.actor, id) THEN Refused("AccessDenied")
       ELSE IF appointments[id].status # "booked" THEN Refused("InvalidTransition")
       ELSE Flushes(Update("appointments", id, appointments[id],
                           [status |-> "cancelled", updated_at |-> now],
                           {"updated_at"}))

\* admin.update_appointment_status: the appointment row and
\* status = data.get('status'), unchecked
UpdateStatusSelect(r) ==
    Flushes(Update("appointments", r.args.id, appointments[r.args.id],
                   [status |-> r.args.status], {}))

\* admin.toggle_doctor_status: the doctor row and
\* is_active = not doctor.is_active; after its commit the route reads
\* doctor.is_active and doctor.full_name, which the commit has expired, for
\* its message
ToggleDoctorSelect(r) ==
    IF r.pc = "doctors"
    THEN FlushesThen(<<Write("doctors", "update", r.args.doctor, <<>>,
                             [is_active |-> ~doctor_active[r.args.doctor]])>>,
                     "refresh")
    ELSE Replies(r.res)

\* admin.toggle_patient_status: the patient row and
\* is_active = not patient.is_active; after its commit the route reads
\* patient.is_active and patient.full_name for its message
TogglePatientSelect(r) ==
    IF r.pc = "patients"
    THEN FlushesThen(<<Write("patients", "update", r.args.patient, <<>>,
                             [is_active |-> ~patient_active[r.args.patient]])>>,
                     "refresh")
    ELSE Replies(r.res)

\* the next SELECT of a request and the code of its route up to the
\* statement after it
Select(r) ==
    CASE r.op \in BookOps -> BookSelect(r)
      [] r.op = "reschedule_appointment" -> RescheduleSelect(r)
      [] r.op = "patient_cancel_appointment" -> PatientCancelSelect(r)
      [] r.op = "complete_appointment" -> CompleteSelect(r)
      [] r.op = "doctor_cancel_appointment" -> DoctorCancelSelect(r)
      [] r.op = "confirm_appointment" -> ConfirmSelect(r)
      [] r.op = "add_availability" -> AddAvailabilitySelect(r)
      [] r.op = "delete_availability" -> DeleteAvailabilitySelect(r)
      [] r.op = "api_appointment_detail_put" -> ApiPutSelect(r)
      [] r.op = "api_appointment_detail_delete" -> ApiDeleteSelect(r)
      [] r.op = "update_appointment_status" -> UpdateStatusSelect(r)
      [] r.op = "toggle_doctor_status" -> ToggleDoctorSelect(r)
      [] r.op = "toggle_patient_status" -> TogglePatientSelect(r)

\* ------------------------------------------------------------ actions
\* The arrival of a request, taken while a worker is free: the user loader
\* reads the row of current_user, and the request is answered when the login
\* check, the role check or a form check refuses it; otherwise it waits for
\* its first SELECT.
Arrive(actor, op, args) ==
    /\ BagCardinality(inflight) < NumWorkers
    /\ \E login \in LoginAnswers(actor) :
          LET res == Entry(actor, op, args, login)
          IN IF res = "ok"
             THEN /\ inflight' = inflight (+) SetToBag({Request(op, actor, args)})
                  /\ last' = last
             ELSE /\ inflight' = inflight
                  /\ last' = AnswerTo(actor, op, res)
    /\ UNCHANGED <<appointments, treatments, availability, doctor_active,
                   patient_active, now>>

\* patient.book_appointment, POST
book_appointment(actor, doctor, d, t, reason) ==
    Arrive(actor, "book_appointment",
           [doctor |-> doctor, d |-> d, t |-> t, reason |-> reason])

\* api.appointments, POST
api_appointments_post(actor, doctor, d, t, reason) ==
    Arrive(actor, "api_appointments_post",
           [doctor |-> doctor, d |-> d, t |-> t, reason |-> reason])

\* patient.cancel_appointment
patient_cancel_appointment(actor, id) ==
    Arrive(actor, "patient_cancel_appointment", [id |-> id])

\* patient.reschedule_appointment, POST
reschedule_appointment(actor, id, d, t) ==
    Arrive(actor, "reschedule_appointment", [id |-> id, d |-> d, t |-> t])

\* doctor.complete_appointment, POST
complete_appointment(actor, id, diagnosis, follow_up_required, follow_up_date) ==
    Arrive(actor, "complete_appointment",
           [id |-> id, diagnosis |-> diagnosis,
            follow_up_required |-> follow_up_required,
            follow_up_date |-> follow_up_date])

\* doctor.cancel_appointment
doctor_cancel_appointment(actor, id) ==
    Arrive(actor, "doctor_cancel_appointment", [id |-> id])

\* doctor.confirm_appointment
confirm_appointment(actor, id) ==
    Arrive(actor, "confirm_appointment", [id |-> id])

\* doctor.add_availability, POST
add_availability(actor, d, start, end) ==
    Arrive(actor, "add_availability", [d |-> d, start |-> start, end |-> end])

\* doctor.delete_availability
delete_availability(actor, id) ==
    Arrive(actor, "delete_availability", [id |-> id])

\* api.appointment_detail, PUT; body is the JSON object of the request
api_appointment_detail_put(actor, id, body) ==
    Arrive(actor, "api_appointment_detail_put", [id |-> id, body |-> body])

\* api.appointment_detail, DELETE
api_appointment_detail_delete(actor, id) ==
    Arrive(actor, "api_appointment_detail_delete", [id |-> id])

\* admin.update_appointment_status
update_appointment_status(actor, id, new_status) ==
    Arrive(actor, "update_appointment_status", [id |-> id, status |-> new_status])

\* admin.toggle_doctor_status
toggle_doctor_status(actor, doctor) ==
    Arrive(actor, "toggle_doctor_status", [doctor |-> doctor])

\* admin.toggle_patient_status
toggle_patient_status(actor, patient) ==
    Arrive(actor, "toggle_patient_status", [patient |-> patient])

\* a request that sends no further statement is answered; otherwise it
\* waits with what the step o has given it, having made n commits
Proceed(r, o, n) ==
    IF o.pc = "done" \/ (o.pc = "commit" /\ o.writes = <<>> /\ o.then = "done")
    THEN /\ inflight' = inflight (-) SetToBag({r})
         /\ last' = AnswerTo(r.actor, r.op, o.res)
    ELSE /\ inflight' = (inflight (-) SetToBag({r})) (+)
                 SetToBag({[r EXCEPT !.pc = o.pc, !.loaded = o.loaded,
                                     !.writes = o.writes, !.then = o.then,
                                     !.res = o.res, !.commits = n]})
         /\ last' = last

\* the next SELECT of the waiting request r, on the tables as they are now:
\* the request is answered when it returns after this SELECT (a guard
\* refuses it, nothing is left to send, or it reaches its commit with
\* nothing to write); otherwise it waits for its next statement
select(r) ==
    /\ r \in Pending
    /\ r.pc # "commit"
    /\ LET o == Select(r)
       IN Room(o.writes) /\ Proceed(r, o, r.commits)
    /\ UNCHANGED <<appointments, treatments, availability, doctor_active,
                   patient_active, now>>

\* the SELECT that reloads the object a commit has expired raises: the
\* except branch around the commit catches it, rolls the session back (the
\* commit stands) and the request is answered with an error (500 on the
\* JSON API)
refresh_fails(r) ==
    /\ r \in Pending
    /\ r.pc = "refresh"
    /\ Proceed(r, Replies("StoreFailure"), r.commits)
    /\ UNCHANGED <<appointments, treatments, availability, doctor_active,
                   patient_active, now>>

\* db.session.commit() of the waiting request r: its statements and the
\* COMMIT reach the tables as they are now; the request is answered, or goes
\* on to the statement its route sends after the commit
commit(r) ==
    /\ r \in Pending
    /\ r.pc = "commit"
    /\ appointments' = CommitAppointments(appointments, r.writes)
    /\ treatments' = CommitTreatments(treatments, r.writes)
    /\ availability' = CommitAvailability(availability, r.writes)
    /\ doctor_active' = CommitDoctors(doctor_active, r.writes)
    /\ patient_active' = CommitPatients(patient_active, r.writes)
    /\ Proceed(r, IF r.then = "done" THEN Replies("ok")
                  ELSE GoesOn(r.then, <<>>), r.commits + 1)
    /\ UNCHANGED now

\* db.session.commit() of the waiting request r raises, at one of its
\* statements (the first sent statements are then in the open transaction)
\* or at the COMMIT: the except branch rolls the session back, and the
\* request is answered with an error (500 on the JSON API) or goes on to the
\* SELECTs of the form it renders again
commit_fails(r) ==
    /\ r \in Pending
    /\ r.pc = "commit"
    /\ \E sent \in 0..Len(r.writes) :
          LET ws == SubSeq(r.writes, 1, sent)
          IN /\ appointments' =
                    Rollback(appointments, CommitAppointments(appointments, ws))
             /\ treatments' =
                    Rollback(treatments, CommitTreatments(treatments, ws))
             /\ availability' =
                    Rollback(availability, CommitAvailability(availability, ws))
             /\ doctor_active' =
                    Rollback(doctor_active, CommitDoctors(doctor_active, ws))
             /\ patient_active' =
                    Rollback(patient_active, CommitPatients(patient_active, ws))
    /\ Proceed(r, Renders("StoreFailure", FailurePc(r.op), <<>>), r.commits)
    /\ UNCHANGED now

\* the wall clock moves on by a minute
Tick ==
    /\ now < StartNow + MaxTicks
    /\ now' = now + 1
    /\ UNCHANGED <<appointments, treatments, availability, doctor_active,
                   patient_active, inflight, last>>
\* ------------------------------------------------------ initial states
\* the state after init_db.py: no appointment, treatment or availability row
Init ==
    /\ appointments = <<>>
    /\ treatments = <<>>
    /\ availability = {}
    /\ doctor_active = [d \in Doctors |-> TRUE]
    /\ patient_active = [p \in Patients |-> TRUE]
    /\ now = StartNow
    /\ inflight = EmptyBag
    /\ last = Answer("none", "none", 0)

\* the rows two successful add_availability requests leave on day MaxDate:
\* doctor 1 open 09:00-10:00, doctor 2 open 09:00-11:00
SeedAvailability ==
    {[NewAvailability(1, MaxDate, 9 * 60, 10 * 60) EXCEPT !.id = 1],
     [NewAvailability(2, MaxDate, 9 * 60, 11 * 60) EXCEPT !.id = 2]}

\* the state once the doctors have declared their availability
InitLedger ==
    /\ appointments = <<>>
    /\ treatments = <<>>
    /\ availability = SeedAvailability
    /\ doctor_active = [d \in Doctors |-> TRUE]
    /\ patient_active = [p \in Patients |-> TRUE]
    /\ now = StartNow
    /\ inflight = EmptyBag
    /\ last = Answer("none", "none", 0)

\* the state once patient 1 has booked doctor 1 at 09:00 on day MaxDate
InitBooked ==
    /\ now = StartNow
    /\ appointments = <<NewAppointment(1, 1, MaxDate, 9 * 60, BookReason)>>
    /\ treatments = <<>>
    /\ availability = SeedAvailability
    /\ doctor_active = [d \in Doctors |-> TRUE]
    /\ patient_active = [p \in Patients |-> TRUE]
    /\ inflight = EmptyBag
    /\ last = Answer("none", "none", 0)

\* ------------------------------------------------------- roles and owners
\* the bodies of the JSON update requests: a status, a reason, or both
PutBodies ==
    {[status |-> "completed"], [reason |-> NewReason],
     [status |-> "cancelled", reason |-> NewReason]}

\* every route that names an appointment, requested by every actor, its owner
\* or not, of the route's role or not; and the patients request the staff
\* routes for slots and doctors
NextAccess ==
    \/ \E actor \in Actors, id \in AppointmentIds :
          patient_cancel_appointment(actor, id)
    \/ \E actor \in Actors, id \in AppointmentIds :
          reschedule_appointment(actor, id, MaxDate, 9 * 60)
    \/ \E actor \in Actors, id \in AppointmentIds :
          complete_appointment(actor, id, "flu", FALSE, NoDate)
    \/ \E actor \in Actors, id \in AppointmentIds :
          doctor_cancel_appointment(actor, id)
    \/ \E actor \in Actors, id \in AppointmentIds :
          confirm_appointment(actor, id)
    \/ \E actor \in Actors, id \in AppointmentIds, body \in PutBodies :
          api_appointment_detail_put(actor, id, body)
    \/ \E actor \in Actors, id \in AppointmentIds :
          api_appointment_detail_delete(actor, id)
    \/ \E actor \in Actors, id \in AppointmentIds, st \in {"confirmed", "completed"} :
          update_appointment_status(actor, id, st)
    \/ \E actor \in PatientActors :
          add_availability(actor, MaxDate, 10 * 60, 11 * 60)
    \/ \E actor \in PatientActors, id \in AvailabilityIds :
          delete_availability(actor, id)
    \/ \E actor \in PatientActors, doctor \in Doctors :
          toggle_doctor_status(actor, doctor)
    \/ \E r \in Pending : select(r)
    \/ \E r \in Pending : commit(r)

SpecAccess == InitBooked /\ [][NextAccess]_vars

\* ------------------------------------------------------------ the ledger
\* patients book doctor 1 at 09:00 on day MaxDate, on the web route and
\* patient 2 also on the JSON API, cancel and move their appointments; doctor 1
\* confirms and completes them; doctor 1 is open 09:00-10:00, so a move to
\* 10:00 finds no slot
NextLedger ==
    \/ \E actor \in PatientActors :
          book_appointment(actor, 1, MaxDate, 9 * 60, BookReason)
    \/ api_appointments_post([role |-> "patient", id |-> 2], 1, MaxDate, 9 * 60,
                             BookReason)
    \/ \E actor \in PatientActors, id \in AppointmentIds :
          patient_cancel_appointment(actor, id)
    \/ \E actor \in PatientActors, id \in AppointmentIds, t \in Times :
          reschedule_appointment(actor, id, MaxDate, t)
    \/ \E id \in AppointmentIds :
          confirm_appointment([role |-> "doctor", id |-> 1], id)
    \/ \E id \in AppointmentIds :
          complete_appointment([role |-> "doctor", id |-> 1], id, "flu", FALSE, NoDate)
    \/ \E r \in Pending : select(r)
    \/ \E r \in Pending : commit(r)

Spec == InitLedger /\ [][NextLedger]_vars

\* ------------------------------------------------- interleaved requests
\* patients book doctor 2, open 09:00-11:00, at 09:00 or 10:00 and move
\* their appointments between the two times; the SELECTs and the commits
\* of two requests come in any order
NextConcurrent ==
    \/ \E actor \in PatientActors, t \in Times :
          book_appointment(actor, 2, MaxDate, t, BookReason)
    \/ \E actor \in PatientActors, t \in Times :
          api_appointments_post(actor, 2, MaxDate, t, BookReason)
    \/ \E actor \in PatientActors, id \in AppointmentIds, t \in Times :
          reschedule_appointment(actor, id, MaxDate, t)
    \/ \E r \in Pending : select(r)
    \/ \E r \in Pending : commit(r)

SpecConcurrent == InitLedger /\ [][NextConcurrent]_vars

\* ------------------------------------------------------ treatment records
\* the doctors complete the booked appointment of doctor 1 with every form
\* input, confirm it and cancel it
NextTreatment ==
    \/ \E actor \in DoctorActors, id \in AppointmentIds, diagnosis \in DiagnosisInputs,
          fur \in BOOLEAN, fud \in FollowUpDates :
          complete_appointment(actor, id, diagnosis, fur, fud)
    \/ \E actor \in DoctorActors, id \in AppointmentIds :
          doctor_cancel_appointment(actor, id)
    \/ \E actor \in DoctorActors, id \in AppointmentIds :
          confirm_appointment(actor, id)
    \/ \E r \in Pending : select(r)
    \/ \E r \in Pending : commit(r)

SpecTreatment == InitBooked /\ [][NextTreatment]_vars

\* ------------------------------------------------------ the cancel window
\* the rows two successful add_availability requests leave on day MaxDate:
\* doctor 1 open 07:00-10:00, doctor 2 open 09:00-11:00
SeedCancelAvailability ==
    {[NewAvailability(1, MaxDate, 7 * 60, 10 * 60) EXCEPT !.id = 1],
     [NewAvailability(2, MaxDate, 9 * 60, 11 * 60) EXCEPT !.id = 2]}

\* the state once patient 1 has booked doctor 1 at 09:00, two hours and one
\* minute after the clock's start, and patient 2 at 07:00, one minute after it
InitCancel ==
    /\ now = StartNow
    /\ appointments = <<NewAppointment(1, 1, MaxDate, 9 * 60, BookReason),
                        NewAppointment(2, 1, MaxDate, 7 * 60, BookReason)>>
    /\ treatments = <<>>
    /\ availability = SeedCancelAvailability
    /\ doctor_active = [d \in Doctors |-> TRUE]
    /\ patient_active = [p \in Patients |-> TRUE]
    /\ inflight = EmptyBag
    /\ last = Answer("none", "none", 0)

\* patients cancel, doctors confirm and cancel, while the clock runs
NextCancel ==
    \/ \E actor \in PatientActors, id \in AppointmentIds :
          patient_cancel_appointment(actor, id)
    \/ \E actor \in DoctorActors, id \in AppointmentIds :
          doctor_cancel_appointment(actor, id)
    \/ \E actor \in DoctorActors, id \in AppointmentIds :
          confirm_appointment(actor, id)
    \/ \E r \in Pending : select(r)
    \/ \E r \in Pending : commit(r)
    \/ Tick

SpecCancel == InitCancel /\ [][NextCancel]_vars

\* ------------------------------------------------- rescheduling and doctors
\* patient 1 moves the appointment with doctor 1, the doctors confirm it, and
\* the admin deactivates and reactivates doctors
NextReschedule ==
    \/ \E actor \in PatientActors, id \in AppointmentIds, d \in Dates, t \in Times :
          reschedule_appointment(actor, id, d, t)
    \/ \E actor \in DoctorActors, id \in AppointmentIds :
          confirm_appointment(actor, id)
    \/ \E actor \in AdminActors, doctor \in Doctors :
          toggle_doctor_status(actor, doctor)
    \/ \E r \in Pending : select(r)
    \/ \E r \in Pending : commit(r)

SpecReschedule == InitBooked /\ [][NextReschedule]_vars

\* ------------------------------------------------------ availability slots
\* the intervals of the slot scenarios: 09:00-12:00 with 10:00-11:00 strictly
\* inside it and 09:00-10:00 at its start, and two that are no range, an
\* empty one and one that ends before it starts
SlotIntervals ==
    {<<9 * 60, 12 * 60>>, <<10 * 60, 11 * 60>>, <<9 * 60, 10 * 60>>,
     <<10 * 60, 10 * 60>>, <<11 * 60, 10 * 60>>}

\* ids a delete request may name: those of the rows the table can hold
SlotIds == 1..MaxAvailability

\* doctors add slots on day MaxDate and delete slots, their own and each
\* other's
NextAvailability ==
    \/ \E actor \in DoctorActors, d \in Dates, iv \in SlotIntervals :
          add_availability(actor, d, iv[1], iv[2])
    \/ \E actor \in DoctorActors, id \in SlotIds :
          delete_availability(actor, id)
    \/ \E r \in Pending : select(r)
    \/ \E r \in Pending : commit(r)

SpecAvailability == Init /\ [][NextAvailability]_vars

\* ------------------------------------------------------- status values
\* the bodies of the JSON update requests of the status scenarios: every
\* status value, known and unknown, a reason, or both
StatusBodies ==
    {[status |-> st] : st \in StatusInputs} \cup
    {[reason |-> NewReason], [status |-> "cancelled", reason |-> NewReason]}

\* the admin sends status values, known and unknown, for the booked
\* appointment on the admin's status route, and actors of every role send
\* them on the JSON update
NextStatus ==
    \/ \E actor \in AdminActors, id \in AppointmentIds, st \in StatusInputs :
          update_appointment_status(actor, id, st)
    \/ \E actor \in Actors, id \in AppointmentIds, body \in StatusBodies :
          api_appointment_detail_put(actor, id, body)
    \/ \E r \in Pending : select(r)
    \/ \E r \in Pending : commit(r)

SpecStatus == InitBooked /\ [][NextStatus]_vars

\* ------------------------------------------------------- failing commits
\* patient 1 and doctor 1 make every mutating request around the booked
\* appointment, and patient 2 books on the JSON API; each commit succeeds or
\* raises, and so does the read that follows a commit
NextStore ==
    \/ book_appointment([role |-> "patient", id |-> 1], 2, MaxDate, 9 * 60, BookReason)
    \/ api_appointments_post([role |-> "patient", id |-> 2], 2, MaxDate, 10 * 60,
                             BookReason)
    \/ \E id \in AppointmentIds :
          reschedule_appointment([role |-> "patient", id |-> 1], id, MaxDate, 9 * 60)
    \/ \E id \in AppointmentIds :
          patient_cancel_appointment([role |-> "patient", id |-> 1], id)
    \/ \E id \in AppointmentIds :
          confirm_appointment([role |-> "doctor", id |-> 1], id)
    \/ \E id \in AppointmentIds :
          complete_appointment([role |-> "doctor", id |-> 1], id, "flu", FALSE, NoDate)
    \/ \E id \in AppointmentIds :
          doctor_cancel_appointment([role |-> "doctor", id |-> 1], id)
    \/ add_availability([role |-> "doctor", id |-> 1], MaxDate, 10 * 60, 11 * 60)
    \/ \E id \in SlotIds : delete_availability([role |-> "doctor", id |-> 1], id)
    \/ \E r \in Pending : select(r)
    \/ \E r \in Pending : commit(r)
    \/ \E r \in Pending : commit_fails(r)
    \/ \E r \in Pending : refresh_fails(r)

SpecStore == InitBooked /\ [][NextStore]_vars

\* ------------------------------------------------------------- the clock
\* the state once patient 1 has booked doctor 2, open 09:00-11:00, at 09:00
\* on day MaxDate
InitClock ==
    /\ now = StartNow
    /\ appointments = <<NewAppointment(1, 2, MaxDate, 9 * 60, BookReason)>>
    /\ treatments = <<>>
    /\ availability = SeedAvailability
    /\ doctor_active = [d \in Doctors |-> TRUE]
    /\ patient_active = [p \in Patients |-> TRUE]
    /\ inflight = EmptyBag
    /\ last = Answer("none", "none", 0)

\* the transitions of the booked appointment 1, which its patient moves
\* between 09:00 and 10:00, and a second booking, while the clock runs
\* between the steps
NextClock ==
    \/ book_appointment([role |-> "patient", id |-> 2], 1, MaxDate, 9 * 60, BookReason)
    \/ \E t \in Times :
          reschedule_appointment([role |-> "patient", id |-> 1], 1, MaxDate, t)
    \/ patient_cancel_appointment([role |-> "patient", id |-> 1], 1)
    \/ confirm_appointment([role |-> "doctor", id |-> 2], 1)
    \/ complete_appointment([role |-> "doctor", id |-> 2], 1, "flu", FALSE, NoDate)
    \/ doctor_cancel_appointment([role |-> "doctor", id |-> 2], 1)
    \/ \E r \in Pending : select(r)
    \/ \E r \in Pending : commit(r)
    \/ Tick

SpecClock == InitClock /\ [][NextClock]_vars

\* ------------------------------------------------------ who may book
\* actors of every role send book requests for doctor 1 at 09:00, on the web
\* route and on the JSON API, and patients cancel; the admin deactivates and
\* reactivates patient 1
NextCreate ==
    \/ \E actor \in Actors :
          book_appointment(actor, 1, MaxDate, 9 * 60, BookReason)
    \/ \E actor \in Actors :
          api_appointments_post(actor, 1, MaxDate, 9 * 60, BookReason)
    \/ \E actor \in PatientActors, id \in AppointmentIds :
          patient_cancel_appointment(actor, id)
    \/ \E actor \in AdminActors :
          toggle_patient_status(actor, 1)
    \/ \E r \in Pending : select(r)
    \/ \E r \in Pending : commit(r)

SpecCreate == InitLedger /\ [][NextCreate]_vars

\* ------------------------------------------------------ the book guards
\* patient 1 sends web book requests for every doctor, date and time and
\* patient 2 API book requests for doctor 1, while doctor 1 deletes slots and
\* the admin deactivates and reactivates doctor 1; doctor 1's slot ends at
\* 10:00, a time a request may carry
NextBooking ==
    \/ \E doctor \in Doctors, d \in Dates, t \in Times :
          book_appointment([role |-> "patient", id |-> 1], doctor, d, t, BookReason)
    \/ \E t \in Times :
          api_appointments_post([role |-> "patient", id |-> 2], 1, MaxDate, t, BookReason)
    \/ \E id \in SlotIds :
          delete_availability([role |-> "doctor", id |-> 1], id)
    \/ \E actor \in AdminActors :
          toggle_doctor_status(actor, 1)
    \/ \E r \in Pending : select(r)
    \/ \E r \in Pending : commit(r)

SpecBooking == InitLedger /\ [][NextBooking]_vars

\* ================================================================ claims
\* row i holds the triple (doctor, d, t)
AtTriple(i, doctor, d, t) ==
    /\ appointments[i].doctor_id = doctor
    /\ appointments[i].appointment_date = d
    /\ appointments[i].appointment_time = t

\* an open slot of the doctor on the date covers the time
SlotCovers(doctor, d, t) ==
    \E s \in availability :
        /\ s.doctor_id = doctor /\ s.available_date = d /\ s.is_available
        /\ s.start_time <= t /\ t < s.end_time

\* the Treatment rows that reference appointment id
TreatmentsOf(id) == {k \in 1..Len(treatments) : treatments[k].appointment_id = id}

\* the step answers a request at its arrival: no request starts or stops
\* waiting and the clock stands
Answers == inflight' = inflight /\ now' = now

\* the step is the arrival of a request that waits for its first SELECT, and
\* that request
Arrives == BagCardinality(inflight') = BagCardinality(inflight) + 1
Arrived ==
    CHOOSE r \in BagToSet(inflight') : CopiesIn(r, inflight') > CopiesIn(r, inflight)

\* the step answers a waiting request, after a SELECT or at its commit
Ends == BagCardinality(inflight') = BagCardinality(inflight) - 1
\* the step is a statement (a SELECT or a commit) of a waiting request
Steps == \E r \in Pending : CopiesIn(r, inflight') < CopiesIn(r, inflight)
\* the waiting request whose statement the step is
Ended == CHOOSE r \in Pending : CopiesIn(r, inflight) > CopiesIn(r, inflight')

\* the step is a SELECT of the waiting request r
Selects(r) ==
    /\ r \in Pending
    /\ r.pc # "commit"
    /\ CopiesIn(r, inflight') < CopiesIn(r, inflight)

\* the request r as it waits after its step
After(r) ==
    CHOOSE q \in BagToSet(inflight') : CopiesIn(q, inflight') > CopiesIn(q, inflight)

\* the step is a statement after which a request waits for its next one,
\* and no request is answered
Waits ==
    /\ BagCardinality(inflight') = BagCardinality(inflight)
    /\ last' = last

\* the step is a SELECT after which request r goes on, no guard having
\* refused it
Passes(r) ==
    /\ Selects(r)
    /\ Waits
    /\ After(r).res = "ok"

\* the stores are as they were
StoresUnchanged ==
    /\ appointments' = appointments
    /\ treatments' = treatments
    /\ availability' = availability
    /\ doctor_active' = doctor_active
    /\ patient_active' = patient_active

\* the step is a SELECT after which request r is refused with res, and no
\* row changes: r is answered res, or r has flashed res and has only the
\* SELECTs of its form left to send
Refuses(r, res) ==
    /\ Selects(r)
    /\ \/ Ends /\ last' = AnswerTo(r.actor, r.op, res)
       \/ /\ Waits
          /\ After(r).res = res
          /\ After(r).writes = <<>>
          /\ After(r).pc \in {"doctor_availability#list", "departments"}
    /\ StoresUnchanged

\* a request that has flashed its answer and taken up the SELECTs of its
\* form sends nothing but these SELECTs, which change no row, and is answered
\* what it flashed
FlashedIsAnswered ==
    \A r \in Pending :
        (r.res # "ok" /\ CopiesIn(r, inflight') < CopiesIn(r, inflight))
        => /\ r.pc \in {"appointments#reload", "doctor_availability#list",
                        "departments"}
           /\ StoresUnchanged
           /\ \/ Ends /\ last' = AnswerTo(r.actor, r.op, r.res)
              \/ /\ Waits
                 /\ After(r).res = r.res
                 /\ After(r).writes = <<>>
                 /\ After(r).pc \in {"doctor_availability#list", "departments"}

\* the step is the commit of a waiting request, and it succeeds: the
\* request is answered ok, or goes on having made one more commit
Committed ==
    /\ \E r \in Pending :
          r.pc = "commit" /\ CopiesIn(r, inflight') < CopiesIn(r, inflight)
    /\ \/ Ends /\ last'.res = "ok"
       \/ Waits /\ After(Ended).commits = Ended.commits + 1

\* the step is the successful commit of a request of one of the routes ops
Commits(ops) == Committed /\ Ended.op \in ops

\* the step is the commit of the waiting request r, and it raises
Fails(r) ==
    /\ r \in Pending
    /\ r.pc = "commit"
    /\ CopiesIn(r, inflight') < CopiesIn(r, inflight)
    /\ ~Committed

\* the first statement of a request
Stmt(r) == r.writes[1]

\* a book request, by either route, about to run its conflict query for the
\* triple (doctor, d, t)
BookConflictQuery(r, doctor, d, t) ==
    /\ r.op \in BookOps
    /\ r.pc = "appointments"
    /\ r.args.doctor = doctor /\ r.args.d = d /\ r.args.t = t

\* the step appends exactly one row and leaves the others as they were
AppendsOneRow ==
    /\ Len(appointments') = Len(appointments) + 1
    /\ SubSeq(appointments', 1, Len(appointments)) = appointments

\* C1: in every reachable state at most one appointment whose status is not
\* cancelled holds a given (doctorId, date, time) triple.
C1_UniqueTriple ==
    \A i, j \in AppointmentIds :
        (/\ i # j
         /\ appointments[i].status # "cancelled"
         /\ appointments[j].status # "cancelled")
        => ~AtTriple(j, appointments[i].doctor_id,
                     appointments[i].appointment_date,
                     appointments[i].appointment_time)

\* C4: once an appointment is completed or cancelled, no later request changes
\* its status, date or time: every transition attempt on it fails.
C4_TerminalFrozen ==
    [][\A id \in AppointmentIds :
          appointments[id].status \in {"completed", "cancelled"}
          => /\ appointments'[id].status = appointments[id].status
             /\ appointments'[id].appointment_date = appointments[id].appointment_date
             /\ appointments'[id].appointment_time = appointments[id].appointment_time]_vars

\* C5: in every reachable state each appointment has at most one Treatment
\* row referencing it.
C5_AtMostOneTreatment ==
    \A id \in AppointmentIds : Cardinality(TreatmentsOf(id)) <= 1

\* C6: in every reachable state an appointment is completed if and only if a
\* Treatment row references it.
C6_CompletedIffTreatment ==
    \A id \in AppointmentIds :
        (appointments[id].status = "completed") <=> (TreatmentsOf(id) # {})

\* C7: a book request (web route or JSON API) that has passed the guards
\* before the conflict query and finds no booked appointment at its triple
\* goes on to its commit, and the commit appends one appointment, for the
\* requesting patient and the requested triple, with status booked; a book
\* request whose conflict query runs while a booked appointment holds the
\* triple is answered SlotTaken and adds no appointment.
C7_BookThenSlotTaken ==
    [][/\ Commits(BookOps)
          => /\ AppendsOneRow
             /\ LET row == appointments'[Len(appointments')]
                IN /\ row.status = "booked"
                   /\ row.patient_id = Ended.actor.id
                   /\ row.doctor_id = Ended.args.doctor
                   /\ row.appointment_date = Ended.args.d
                   /\ row.appointment_time = Ended.args.t
       /\ \A r \in Pending, doctor \in Doctors, d \in Dates, t \in Times :
             (Selects(r) /\ BookConflictQuery(r, doctor, d, t))
             => IF \E i \in AppointmentIds :
                       AtTriple(i, doctor, d, t) /\ appointments[i].status = "booked"
                THEN Refuses(r, "SlotTaken")
                ELSE /\ Passes(r)
                     /\ After(r).pc = "commit"
                     /\ Stmt(After(r)).kind = "insert"
                     /\ Stmt(After(r)).row.status = "booked"]_vars

\* C7 witness: a book request has just been answered SlotTaken while a booked
\* appointment created by an earlier book request holds a triple.
C7_Witness ==
    /\ last.op = "book_appointment"
    /\ last.res = "SlotTaken"
    /\ \E i \in AppointmentIds : appointments[i].status = "booked"

\* C8: a book request whose conflict query runs while an appointment in any
\* non-cancelled state (booked, confirmed, completed) holds its triple is
\* answered SlotTaken and adds no appointment.
C8_NonCancelledBlocksBook ==
    [][\A r \in Pending, doctor \in Doctors, d \in Dates, t \in Times :
          (/\ Selects(r)
           /\ BookConflictQuery(r, doctor, d, t)
           /\ \E i \in AppointmentIds :
                  /\ AtTriple(i, doctor, d, t)
                  /\ appointments[i].status # "cancelled")
          => Refuses(r, "SlotTaken")]_vars

\* C20: a reschedule of an appointment to the date and time it has, by its
\* patient, that has passed the guards before the conflict query goes on to
\* its commit whenever no other booked appointment holds the triple: the
\* appointment's own row is no conflict; its commit leaves the date, the
\* time and the status as they are.
C20_RescheduleNoSelfConflict ==
    [][/\ \A r \in Pending :
             (/\ Selects(r)
              /\ r.op = "reschedule_appointment"
              /\ r.pc = "appointments#2"
              /\ AtTriple(r.args.id, r.loaded.doctor_id, r.args.d, r.args.t)
              /\ BookedAt(r.loaded.doctor_id, r.args.d, r.args.t) \subseteq {r.args.id})
             => /\ Passes(r)
                /\ After(r).pc = "commit"
                /\ Stmt(After(r)).id = r.args.id
       /\ (/\ Commits({"reschedule_appointment"})
           /\ DOMAIN Stmt(Ended).cols = {"updated_at"})
          => LET id == Stmt(Ended).id
             IN /\ appointments'[id].appointment_date = appointments[id].appointment_date
                /\ appointments'[id].appointment_time = appointments[id].appointment_time
                /\ appointments'[id].status = appointments[id].status]_vars

\* C20 witness: a reschedule of appointment 1 to the date and time it already
\* has was committed and the appointment is still booked there.
C20_Witness ==
    /\ last.op = "reschedule_appointment"
    /\ last.res = "ok"
    /\ Len(appointments) >= 1
    /\ appointments[1].status = "booked"
    /\ appointments[1].appointment_time = 9 * 60
    /\ BookedAt(appointments[1].doctor_id, MaxDate, 9 * 60) = {1}

\* C21: the owning patient can reschedule an appointment from booked and
\* equally from confirmed: a reschedule of an own booked or confirmed
\* appointment to a date not before today passes the checks on the
\* appointment's row.
C21_RescheduleFromBookedOrConfirmed ==
    [][\A r \in Pending :
          (/\ Selects(r)
           /\ r.op = "reschedule_appointment"
           /\ r.pc = "appointments"
           /\ appointments[r.args.id].patient_id = r.actor.id
           /\ appointments[r.args.id].status \in {"booked", "confirmed"}
           /\ r.args.d >= Today)
          => Passes(r)]_vars

\* C30: on the JSON API a book request answered SlotTaken carries HTTP status
\* 409, one refused by another guard 400, and one refused for the caller's
\* role 403.
C30_ApiBookStatusCodes ==
    last.op = "api_appointments_post"
    => /\ last.res = "SlotTaken" => last.http = 409
       /\ last.res \in {"DoctorInactive", "PastDate", "NoAvailability"} => last.http = 400
       /\ last.res = "RoleDenied" => last.http = 403
\* C2: of the book requests served concurrently for one (doctorId, date,
\* time) exactly one creates an appointment: the commit of a book request
\* adds no appointment for a triple that a booked appointment already holds.
C2_ConcurrentBookOneWinner ==
    [][Commits(BookOps)
       => BookedAt(Ended.args.doctor, Ended.args.d, Ended.args.t) = {}]_vars

\* C3: a reschedule and a concurrent book or reschedule that target the same
\* doctor, date and time never both succeed: once a reschedule to a new date
\* or time has committed, no other booked appointment holds the doctor, date
\* and time of the appointment it moved.
C3_ConcurrentRescheduleOneWinner ==
    [][(/\ Commits({"reschedule_appointment"})
        /\ DOMAIN Stmt(Ended).cols # {"updated_at"})
       => LET id == Stmt(Ended).id
          IN \A i \in AppointmentIds \ {id} :
                (/\ appointments'[i].doctor_id = appointments'[id].doctor_id
                 /\ appointments'[i].appointment_date = appointments'[id].appointment_date
                 /\ appointments'[i].appointment_time = appointments'[id].appointment_time)
                => appointments'[i].status # "booked"]_vars

\* C10: a complete request with follow_up_required set and no follow_up_date,
\* otherwise acceptable, fails: it is refused once the route has read the
\* appointment, so the appointment keeps its status and no Treatment row is
\* created.
C10_FollowUpDateRequired ==
    [][\A r \in Pending :
          (/\ Selects(r)
           /\ r.op = "complete_appointment"
           /\ r.args.follow_up_required
           /\ r.args.follow_up_date = NoDate
           /\ r.args.diagnosis # ""
           /\ appointments[r.args.id].doctor_id = r.actor.id
           /\ appointments[r.args.id].status \in {"booked", "confirmed"})
          => /\ Ends
             /\ last'.res # "ok"]_vars

\* C11: a complete request with an empty diagnosis is refused once the route
\* has read the appointment and changes neither the appointments nor the
\* Treatment rows; made by the assigned doctor on a booked or confirmed
\* appointment it is answered MissingDiagnosis.
C11_MissingDiagnosis ==
    [][\A r \in Pending :
          (/\ Selects(r)
           /\ r.op = "complete_appointment"
           /\ r.args.diagnosis = "")
          => /\ Ends
             /\ last'.op = r.op
             /\ last'.res # "ok"
             /\ StoresUnchanged
             /\ (/\ appointments[r.args.id].doctor_id = r.actor.id
                 /\ appointments[r.args.id].status \in {"booked", "confirmed"})
                => Refuses(r, "MissingDiagnosis")]_vars

\* C11 witness: a complete request has just been answered MissingDiagnosis
\* while every appointment is booked or confirmed and no Treatment row exists.
C11_Witness ==
    /\ last.op = "complete_appointment"
    /\ last.res = "MissingDiagnosis"
    /\ Len(appointments) >= 1
    /\ \A i \in AppointmentIds : appointments[i].status \in {"booked", "confirmed"}
    /\ treatments = <<>>

\* C12: a complete request that reads an appointment that is completed is
\* refused and changes neither the appointments nor the Treatment rows; made
\* by the assigned doctor it fails with AlreadyCompleted, the error of a
\* repeated completion, which is not the NotCompletable of an appointment
\* that is cancelled.
C12_AlreadyCompleted ==
    [][\A r \in Pending :
          (/\ Selects(r)
           /\ r.op = "complete_appointment"
           /\ appointments[r.args.id].status = "completed")
          => /\ Ends
             /\ last'.op = r.op
             /\ last'.res # "ok"
             /\ StoresUnchanged
             /\ appointments[r.args.id].doctor_id = r.actor.id
                => Refuses(r, "AlreadyCompleted")]_vars

\* C32: when two complete requests for one appointment have both read its
\* status before either commits, one Treatment row exists for it afterwards:
\* after the commit of a complete request exactly one Treatment row
\* references the appointment.
C32_ConcurrentCompleteOneTreatment ==
    [][Commits({"complete_appointment"})
       => Cardinality({k \in 1..Len(treatments') :
              treatments'[k].appointment_id = Stmt(Ended).id}) = 1]_vars

\* the routes on which a doctor names an appointment
DoctorApptOps ==
    {"complete_appointment", "doctor_cancel_appointment", "confirm_appointment",
     "api_appointment_detail_put", "api_appointment_detail_delete"}

\* the routes on which a patient names an appointment
PatientApptOps ==
    {"patient_cancel_appointment", "reschedule_appointment",
     "api_appointment_detail_put", "api_appointment_detail_delete"}

\* C13: no request made by an admin moves an appointment to completed or to
\* confirmed: after the commit of an admin's request, an appointment that is
\* completed or confirmed already had that status before.
C13_AdminNeverCompletesOrConfirms ==
    [][(Ends /\ Ended.actor.role = "admin")
       => \A id \in AppointmentIds :
             appointments'[id].status \in {"completed", "confirmed"}
             => appointments'[id].status = appointments[id].status]_vars

\* C14: a confirm, cancel, complete, JSON API update or JSON API delete
\* requested by a doctor, on reading an appointment of another doctor, is
\* denied and changes neither the appointments nor the Treatment rows.
C14_DoctorOnlyOwnAppointments ==
    [][\A r \in Pending :
          (/\ Selects(r)
           /\ r.actor.role = "doctor"
           /\ r.op \in DoctorApptOps
           /\ appointments[r.args.id].doctor_id # r.actor.id)
          => /\ Ends
             /\ last'.op = r.op
             /\ last'.role = "doctor"
             /\ last'.res \in {"NotAssignedDoctor", "NotFound", "AccessDenied"}
             /\ StoresUnchanged]_vars

\* C14 witness: a doctor's JSON API request has just been denied with 403
\* while a booked appointment of another doctor exists.
C14_Witness ==
    /\ last.role = "doctor"
    /\ last.op = "api_appointment_detail_put"
    /\ last.res = "AccessDenied"
    /\ last.http = 403
    /\ \E i \in AppointmentIds : appointments[i].status = "booked"

\* C15: a cancel, reschedule, JSON API update or JSON API delete requested by
\* a patient, on reading an appointment of another patient, is denied and
\* leaves the appointments unchanged.
C15_PatientOnlyOwnAppointments ==
    [][\A r \in Pending :
          (/\ Selects(r)
           /\ r.actor.role = "patient"
           /\ r.op \in PatientApptOps
           /\ r.pc = "appointments"
           /\ appointments[r.args.id].patient_id # r.actor.id)
          => /\ Ends
             /\ last'.op = r.op
             /\ last'.role = "patient"
             /\ last'.res \in {"NotOwner", "AccessDenied"}
             /\ StoresUnchanged]_vars

\* C15 witness: a patient's JSON API delete has just been denied with 403
\* while a booked appointment exists.
C15_Witness ==
    /\ last.role = "patient"
    /\ last.op = "api_appointment_detail_delete"
    /\ last.res = "AccessDenied"
    /\ last.http = 403
    /\ \E i \in AppointmentIds : appointments[i].status = "booked"

\* C16: no request made by a patient, through a web route or the JSON API,
\* gives an appointment the status confirmed or completed or creates a
\* Treatment row: no statement of a patient's request does either, and a
\* patient's request on a doctor's or the admin's web route is denied at its
\* arrival, so that no such request ever waits for a SELECT.
C16_PatientNeverEscalates ==
    [][/\ (Steps /\ Ended.actor.role = "patient")
          => /\ \A id \in AppointmentIds :
                   appointments'[id].status \in {"confirmed", "completed"}
                   => appointments'[id].status = appointments[id].status
             /\ treatments' = treatments
       /\ Arrives => (Arrived.actor.role = "patient" => Arrived.op \notin StaffOps)
       /\ (Answers /\ last' # last /\ last'.role = "patient" /\ last'.op \in StaffOps)
          => last'.res = "RoleDenied" /\ StoresUnchanged]_vars

\* C16 witness: a patient's JSON API update has just been answered while every
\* appointment is still booked and no Treatment row exists.
C16_Witness ==
    /\ last.role = "patient"
    /\ last.op = "api_appointment_detail_put"
    /\ last.http = 200
    /\ Len(appointments) >= 1
    /\ \A i \in AppointmentIds : appointments[i].status = "booked"
    /\ treatments = <<>>

\* C26: no request removes an appointment from the ledger: after every step
\* each appointment is still there under its id, with its patient and its
\* doctor; the commit of a JSON API DELETE leaves the number of rows as it
\* was and the appointment it names cancelled.
C26_NeverDeleted ==
    [][/\ Len(appointments') >= Len(appointments)
       /\ \A id \in AppointmentIds :
             /\ appointments'[id].patient_id = appointments[id].patient_id
             /\ appointments'[id].doctor_id = appointments[id].doctor_id
       /\ Commits({"api_appointment_detail_delete"})
          => /\ Len(appointments') = Len(appointments)
             /\ appointments'[Stmt(Ended).id].status = "cancelled"
             /\ \A j \in AppointmentIds \ {Stmt(Ended).id} :
                   appointments'[j] = appointments[j]]_vars

\* C26 witness: a JSON API DELETE has just been answered 200 and a cancelled
\* appointment is in the ledger.
C26_Witness ==
    /\ last.op = "api_appointment_detail_delete"
    /\ last.res = "ok"
    /\ last.http = 200
    /\ \E i \in AppointmentIds : appointments[i].status = "cancelled"

\* the routes that cancel an appointment
CancelOps ==
    {"patient_cancel_appointment", "doctor_cancel_appointment",
     "api_appointment_detail_delete"}

\* C28: a cancel that reads an appointment that is already cancelled, by its
\* patient, by its doctor or through the JSON API's DELETE by any of them or
\* by an admin, is answered InvalidTransition and changes nothing.
C28_CancelOfCancelled ==
    [][\A r \in Pending :
          (/\ Selects(r)
           /\ r.op \in CancelOps
           /\ appointments[r.args.id].status = "cancelled"
           /\ r.actor.role = "patient" => appointments[r.args.id].patient_id = r.actor.id
           /\ r.actor.role = "doctor" => appointments[r.args.id].doctor_id = r.actor.id)
          => Refuses(r, "InvalidTransition")]_vars

\* C28 witness: a doctor's cancel has just been answered InvalidTransition
\* while every appointment is cancelled.
C28_Witness ==
    /\ last.op = "doctor_cancel_appointment"
    /\ last.res = "InvalidTransition"
    /\ Len(appointments) >= 1
    /\ \A i \in AppointmentIds : appointments[i].status = "cancelled"

\* C33: once a Treatment row exists no step changes any of its fields and no
\* step removes it: every step leaves every existing Treatment row in its
\* place as it was.
C33_TreatmentImmutable ==
    [][/\ Len(treatments') >= Len(treatments)
       /\ \A k \in 1..Len(treatments) : treatments'[k] = treatments[k]]_vars

\* C33 witness: a doctor has just confirmed an appointment that has a
\* Treatment row, and the row is still in the store.
C33_Witness ==
    /\ last.op = "confirm_appointment"
    /\ last.res = "ok"
    /\ \E k \in 1..Len(treatments) :
          appointments[treatments[k].appointment_id].status = "confirmed"

\* C38: a JSON API PUT carries a change of status only when the caller is a
\* doctor or an admin, the appointment is booked when the request reads it
\* and the requested status is completed or cancelled; its commit writes that
\* status to that appointment alone, a PUT that carries no change of status
\* leaves every status as it is, and no PUT changes a date or a time.
C38_ApiPutFrame ==
    [][/\ \A r \in Pending :
             (/\ Passes(r)
              /\ r.op = "api_appointment_detail_put"
              /\ "status" \in DOMAIN Stmt(After(r)).cols)
             => /\ r.actor.role \in {"doctor", "admin"}
                /\ appointments[r.args.id].status = "booked"
                /\ "status" \in DOMAIN r.args.body
                /\ r.args.body.status \in {"completed", "cancelled"}
                /\ Stmt(After(r)).cols.status = r.args.body.status
                /\ Stmt(After(r)).id = r.args.id
       /\ (Ends /\ Ended.op = "api_appointment_detail_put" /\ Ended.pc # "commit")
          => StoresUnchanged
       /\ Commits({"api_appointment_detail_put"})
          => /\ Len(appointments') = Len(appointments)
             /\ \A id \in AppointmentIds :
                   /\ appointments'[id].appointment_date = appointments[id].appointment_date
                   /\ appointments'[id].appointment_time = appointments[id].appointment_time
                   /\ appointments'[id].status # appointments[id].status
                      => /\ id = Stmt(Ended).id
                         /\ "status" \in DOMAIN Stmt(Ended).cols
                         /\ appointments'[id].status = Stmt(Ended).cols.status]_vars

\* C38 witness: a doctor's PUT has just been answered 200 and an appointment
\* is completed with no Treatment, as a PUT with status completed leaves it.
C38_Witness ==
    /\ last.op = "api_appointment_detail_put"
    /\ last.res = "ok"
    /\ last.role = "doctor"
    /\ \E id \in AppointmentIds :
          /\ appointments[id].status = "completed"
          /\ TreatmentsOf(id) = {}

\* minutes from now to the scheduled date and time of appointment i
MinutesUntil(i) ==
    Combine(appointments[i].appointment_date, appointments[i].appointment_time) - now

\* C17: a cancel by the owning patient that reads an appointment that is
\* booked or confirmed, more than 2 hours before the scheduled date and time,
\* succeeds: it goes on to its commit.
C17_PatientCancelsBookedOrConfirmed ==
    [][\A r \in Pending :
          (/\ Selects(r)
           /\ r.op = "patient_cancel_appointment"
           /\ appointments[r.args.id].patient_id = r.actor.id
           /\ appointments[r.args.id].status \in {"booked", "confirmed"}
           /\ MinutesUntil(r.args.id) > CancelWindow)
          => Passes(r)]_vars

\* C18: with time in minutes, a cancel by the owning patient of a booked
\* appointment succeeds exactly when more than 120 minutes remain before the
\* scheduled date and time when the route tests the window: then it goes on
\* to its commit, which leaves the appointment cancelled; otherwise it is
\* answered TooLateToCancel and changes nothing.
C18_CancelWindowBoundary ==
    [][/\ \A r \in Pending :
             (/\ Selects(r)
              /\ r.op = "patient_cancel_appointment"
              /\ appointments[r.args.id].patient_id = r.actor.id
              /\ appointments[r.args.id].status = "booked")
             => /\ Passes(r) <=> (MinutesUntil(r.args.id) >= 121)
                /\ MinutesUntil(r.args.id) <= 120 => Refuses(r, "TooLateToCancel")
       /\ Commits({"patient_cancel_appointment"})
          => /\ appointments'[Stmt(Ended).id].status = "cancelled"
             /\ Combine(appointments[Stmt(Ended).id].appointment_date,
                        appointments[Stmt(Ended).id].appointment_time) - Ended.at >= 121]_vars

\* C18 witness: a patient's cancel has just been answered TooLateToCancel
\* while the appointment at 09:00 is booked and exactly 120 minutes away.
C18_Witness ==
    /\ last.op = "patient_cancel_appointment"
    /\ last.res = "TooLateToCancel"
    /\ appointments[1].status = "booked"
    /\ MinutesUntil(1) = 120

\* C19: a cancel by the assigned doctor that reads an appointment that is
\* booked or confirmed succeeds however little time remains before the
\* scheduled time: it goes on to its commit, which leaves the appointment
\* cancelled.
C19_DoctorCancelNoWindow ==
    [][/\ \A r \in Pending :
             (/\ Selects(r)
              /\ r.op = "doctor_cancel_appointment"
              /\ appointments[r.args.id].doctor_id = r.actor.id
              /\ appointments[r.args.id].status \in {"booked", "confirmed"})
             => /\ Passes(r)
                /\ After(r).pc = "commit"
       /\ Commits({"doctor_cancel_appointment"})
          => appointments'[Stmt(Ended).id].status = "cancelled"]_vars

\* C19 witness: a doctor's cancel has just succeeded on an appointment whose
\* scheduled time is one minute away.
C19_Witness ==
    /\ last.op = "doctor_cancel_appointment"
    /\ last.res = "ok"
    /\ \E i \in AppointmentIds :
          /\ appointments[i].status = "cancelled"
          /\ appointments[i].updated_at = now
          /\ MinutesUntil(i) = 1

\* an appointment other than id, not cancelled, holds the triple
OtherNonCancelledAt(id, doctor, d, t) ==
    \E j \in AppointmentIds \ {id} :
        AtTriple(j, doctor, d, t) /\ appointments[j].status # "cancelled"

\* C22: a reschedule to (d, t) is rejected and leaves the appointment's date,
\* time and status unchanged whenever a book of the same doctor at (d, t)
\* would be rejected: the doctor is inactive or d is before today when the
\* route has read the appointment, no open slot covers t when it asks for
\* one, or another non-cancelled appointment holds the triple when it looks
\* for a conflict.
C22_RescheduleSameGuardsAsBook ==
    [][\A r \in Pending :
          (/\ Selects(r)
           /\ r.op = "reschedule_appointment"
           /\ \/ /\ r.pc = "appointments"
                 /\ \/ ~doctor_active[appointments[r.args.id].doctor_id]
                    \/ r.args.d < Today
              \/ /\ r.pc = "doctor_availability"
                 /\ ~SlotCovers(r.loaded.doctor_id, r.args.d, r.args.t)
              \/ /\ r.pc = "appointments#2"
                 /\ OtherNonCancelledAt(r.args.id, r.loaded.doctor_id,
                                        r.args.d, r.args.t))
          => \E res \in {"NotOwner", "InvalidTransition", "DoctorInactive",
                          "PastDate", "NoAvailability", "SlotTaken"} :
                Refuses(r, res)]_vars

\* the intervals [start1, end1) and [start2, end2) intersect
Intersect(start1, end1, start2, end2) == start1 < end2 /\ start2 < end1

\* C23: in every reachable state no two slots of one doctor on one date have
\* intersecting [start, end) intervals.
C23_SlotsDisjoint ==
    \A s1, s2 \in availability :
        (/\ s1 # s2
         /\ s1.doctor_id = s2.doctor_id
         /\ s1.available_date = s2.available_date)
        => ~Intersect(s1.start_time, s1.end_time, s2.start_time, s2.end_time)

\* C24: of two add requests of one doctor for one date with intersecting
\* intervals, whichever comes first, the second is answered Overlap and adds
\* nothing: an add request whose overlap query runs while the doctor has a
\* slot on that date that intersects its interval is refused, and one that
\* intersects none goes on to its commit.
C24_OverlapEitherOrder ==
    [][\A r \in Pending :
          (Selects(r) /\ r.op = "add_availability")
          => IF \E s \in availability :
                   /\ s.doctor_id = r.actor.id
                   /\ s.available_date = r.args.d
                   /\ Intersect(s.start_time, s.end_time, r.args.start, r.args.end)
             THEN Refuses(r, "Overlap")
             ELSE Passes(r)]_vars

\* C27: a delete of a slot requested by a doctor who does not own it is
\* answered NotOwner and leaves the slots unchanged; requested by the owner it
\* removes that slot and no other: the commit of a delete removes at most the
\* slot the request named, a slot of the doctor who asked.
C27_RemoveSlotOwnerOnly ==
    [][/\ \A r \in Pending :
             (/\ Selects(r)
              /\ r.op = "delete_availability"
              /\ r.args.id \in AvailabilityIds)
             => IF SlotById(r.args.id).doctor_id # r.actor.id
                THEN Refuses(r, "NotOwner")
                ELSE Passes(r)
       /\ Commits({"delete_availability"})
          => /\ availability' \subseteq availability
             /\ \A s \in availability \ availability' :
                   s.id = Stmt(Ended).id /\ s.doctor_id = Ended.actor.id]_vars

\* C31: every slot in the store has start_time < end_time: an add request
\* of a doctor with start >= end is answered InvalidRange and one for a date
\* before today PastDate, each at its arrival with nothing added; a slot that
\* a commit adds has start < end and a date not before the day of the
\* request.
C31_SlotRangeAndDate ==
    [][/\ \A s \in availability' : s.start_time < s.end_time
       /\ (Answers /\ last' # last /\ last'.op = "add_availability")
          => \A actor \in DoctorActors, d \in Dates, iv \in SlotIntervals :
                (doctor_active[actor.id] /\ add_availability(actor, d, iv[1], iv[2]))
                => /\ iv[1] >= iv[2]
                      => /\ last'.res = "InvalidRange"
                         /\ StoresUnchanged
                   /\ (iv[1] < iv[2] /\ d < Today)
                      => /\ last'.res = "PastDate"
                         /\ StoresUnchanged
       /\ Arrives
          => (Arrived.op = "add_availability"
              => /\ Arrived.args.start < Arrived.args.end
                 /\ Arrived.args.d >= Today)
       /\ Commits({"add_availability"})
          => \A s \in availability' \ availability :
                /\ s.start_time = Ended.args.start
                /\ s.end_time = Ended.args.end
                /\ s.start_time < s.end_time
                /\ s.available_date >= Ended.at \div MinutesPerDay]_vars

\* C31 witness: an add request has just been answered InvalidRange while the
\* store holds a slot, whose start is before its end.
C31_Witness ==
    /\ last.op = "add_availability"
    /\ last.res = "InvalidRange"
    /\ availability # {}
    /\ \A s \in availability : s.start_time < s.end_time

\* C25: in every reachable state every appointment's status is booked,
\* confirmed, completed or cancelled, or one of the legacy labels pending and
\* scheduled that count as booked: no request stores any other value.
C25_StatusEnum ==
    \A id \in AppointmentIds :
        appointments[id].status \in Statuses \cup {"pending", "scheduled"}

\* C29: when the commit of a mutating request (book, reschedule, cancel,
\* confirm, complete, add slot, remove slot) fails, the persisted rows are
\* those before the request: the failing commit is the first the request
\* makes and leaves every row as it was, whichever of its statements had
\* been sent; the request has the failure as its answer and afterwards sends
\* only the SELECTs of the form it renders again, without a second commit;
\* and a request changes rows in no step but a commit that succeeds.
C29_FailedCommitChangesNothing ==
    [][/\ \A r \in Pending :
             Fails(r)
             => /\ r.commits = 0
                /\ StoresUnchanged
                /\ \/ Ends /\ last' = AnswerTo(r.actor, r.op, "StoreFailure")
                   \/ /\ Waits
                      /\ After(r).res = "StoreFailure"
                      /\ After(r).writes = <<>>
                      /\ After(r).commits = 0
       /\ FlashedIsAnswered
       /\ ~Committed => StoresUnchanged]_vars

\* C29 witness: the commit of a completion has just failed and the
\* appointment is still open with no treatment recorded.
C29_Witness ==
    /\ last.op = "complete_appointment"
    /\ last.res = "StoreFailure"
    /\ inflight = EmptyBag
    /\ treatments = <<>>
    /\ \E i \in AppointmentIds : appointments[i].status \in {"booked", "confirmed"}

\* C37: a delete_availability request changes only the availability store:
\* at its arrival, at its SELECT and in its commit every appointment and
\* every Treatment is left as it was, also a booked or confirmed appointment
\* whose time lies in the deleted slot.
C37_RemoveSlotFrame ==
    [][(\/ Answers /\ last' # last /\ last'.op = "delete_availability"
        \/ Ends /\ Ended.op = "delete_availability"
        \/ Arrives /\ Arrived.op = "delete_availability"
        \/ \E r \in Pending : Selects(r) /\ r.op = "delete_availability")
       => /\ appointments' = appointments
          /\ treatments' = treatments
          /\ doctor_active' = doctor_active
          /\ patient_active' = patient_active]_vars

\* C37 witness: a slot has just been deleted and a booked or confirmed
\* appointment stands at a time no slot of its doctor covers any more.
C37_Witness ==
    /\ last.op = "delete_availability"
    /\ last.res = "ok"
    /\ \E i \in AppointmentIds :
          /\ appointments[i].status \in {"booked", "confirmed"}
          /\ ~SlotCovers(appointments[i].doctor_id, appointments[i].appointment_date,
                         appointments[i].appointment_time)

\* C34: every step that changes an appointment's status, date or time is
\* the commit of a request (confirm, cancel, reschedule, complete) and leaves
\* its updated_at at the time of the request, a moment between the request's
\* arrival and its commit; the commit of a book request refreshes no
\* existing appointment: each keeps its updated_at with all its other fields.
C34_UpdatedAtRefreshed ==
    [][/\ \A id \in AppointmentIds :
             (\/ appointments'[id].status # appointments[id].status
              \/ appointments'[id].appointment_date # appointments[id].appointment_date
              \/ appointments'[id].appointment_time # appointments[id].appointment_time)
             => /\ Committed
                /\ Ended.at <= appointments'[id].updated_at
                /\ appointments'[id].updated_at <= now
       /\ Len(appointments') > Len(appointments)
          => \A id \in AppointmentIds : appointments'[id] = appointments[id]]_vars

\* C34 witness: a patient has just moved an appointment from 09:00 to 10:00
\* after the clock moved on from its creation, and its updated_at is the
\* present time.
C34_Witness ==
    /\ last.op = "reschedule_appointment"
    /\ last.res = "ok"
    /\ now > StartNow
    /\ \E id \in AppointmentIds :
          /\ appointments[id].status = "booked"
          /\ appointments[id].appointment_time = 10 * 60
          /\ appointments[id].updated_at = now

\* C35: every appointment's patient_id is the id of the patient whose book
\* request created it and stays so: a step that adds an appointment is the
\* commit of a patient's book request and the row carries that patient's id,
\* and a book request by a doctor or an admin is refused at its arrival and
\* adds nothing.
C35_BookAsSelf ==
    [][/\ \A id \in AppointmentIds :
             /\ id <= Len(appointments')
             /\ appointments'[id].patient_id = appointments[id].patient_id
       /\ Len(appointments') > Len(appointments)
          => /\ Commits(BookOps)
             /\ AppendsOneRow
             /\ Ended.actor.role = "patient"
             /\ appointments'[Len(appointments')].patient_id = Ended.actor.id
       /\ (Arrives /\ Arrived.op \in BookOps) => Arrived.actor.role = "patient"
       /\ \A r \in Pending :
             (Passes(r) /\ r.op \in BookOps /\ After(r).pc = "commit")
             => Stmt(After(r)).row.patient_id = r.actor.id
       /\ (/\ last'.op \in BookOps
           /\ last'.role # "patient")
          => /\ last'.res \in {"RoleDenied", "LoginRequired"}
             /\ ~Ends
             /\ last' # last => Answers /\ StoresUnchanged]_vars

\* C35 witness: patient 2 has just booked on the web route and the new
\* appointment carries patient 2's id.
C35_Witness ==
    /\ last.op = "book_appointment"
    /\ last.res = "ok"
    /\ last.role = "patient"
    /\ Len(appointments) >= 1
    /\ appointments[Len(appointments)].patient_id = 2

\* C36: a cancelled appointment does not hold its triple: a book request
\* that has passed the guards before the conflict query, for a (doctor, date,
\* time) whose only appointments are cancelled ones, goes on to its commit,
\* and the commit of a book request appends one booked appointment.
C36_CancelledFreesTriple ==
    [][/\ \A r \in Pending, i \in AppointmentIds :
             (/\ Selects(r)
              /\ BookConflictQuery(r, appointments[i].doctor_id,
                                   appointments[i].appointment_date,
                                   appointments[i].appointment_time)
              /\ \A j \in AppointmentIds :
                    AtTriple(j, appointments[i].doctor_id,
                             appointments[i].appointment_date,
                             appointments[i].appointment_time)
                    => appointments[j].status = "cancelled")
             => /\ Passes(r)
                /\ After(r).pc = "commit"
                /\ Stmt(After(r)).kind = "insert"
       /\ Commits(BookOps)
          => /\ AppendsOneRow
             /\ appointments'[Len(appointments')].status = "booked"]_vars

\* C36 witness: a book request has just succeeded for a triple that a
\* cancelled appointment also carries.
C36_Witness ==
    /\ last.op \in BookOps
    /\ last.res = "ok"
    /\ \E i, j \in AppointmentIds :
          /\ i < j
          /\ j = Len(appointments)
          /\ AtTriple(j, appointments[i].doctor_id, appointments[i].appointment_date,
                      appointments[i].appointment_time)
          /\ appointments[i].status = "cancelled"
          /\ appointments[j].status = "booked"

\* the statement a book request sends after the one at pc
BookNextPc(pc) ==
    IF pc = "doctors" THEN "doctor_availability"
    ELSE IF pc = "doctor_availability" THEN "appointments"
    ELSE "commit"

\* C9: a book request (web route or JSON API) creates an appointment only
\* if the doctor is active and the date is not before today when the route
\* reads the doctor, and an open slot of that doctor on that date has
\* start <= time < end when the route asks for one: every book request
\* starts at the doctor's row and passes the three SELECTs in order, it
\* passes each only if the guard holds then, and only the commit of a book
\* request adds an appointment, the one requested; a request whose
\* availability query runs when no slot covers the time, such as a time equal
\* to a slot's end, is answered NoAvailability and nothing is created.
C9_BookGuards ==
    [][/\ (Arrives /\ Arrived.op \in BookOps) => Arrived.pc = "doctors"
       /\ \A r \in Pending :
             (Passes(r) /\ r.op \in BookOps)
             => /\ After(r).pc = BookNextPc(r.pc)
                /\ After(r).args = r.args
                /\ After(r).actor = r.actor
                /\ r.pc = "doctors"
                   => /\ doctor_active[r.args.doctor]
                      /\ r.args.d >= Today
                /\ r.pc = "doctor_availability"
                   => SlotCovers(r.args.doctor, r.args.d, r.args.t)
       /\ Len(appointments') > Len(appointments)
          => /\ Commits(BookOps)
             /\ AppendsOneRow
             /\ LET row == appointments'[Len(appointments')]
                IN /\ row.doctor_id = Ended.args.doctor
                   /\ row.appointment_date = Ended.args.d
                   /\ row.appointment_time = Ended.args.t
       /\ \A r \in Pending :
             (/\ Selects(r)
              /\ r.op \in BookOps
              /\ r.pc = "doctor_availability"
              /\ ~SlotCovers(r.args.doctor, r.args.d, r.args.t))
             => Refuses(r, "NoAvailability")]_vars

\* C9 witness: a book request has just been answered NoAvailability in a
\* state where every doctor is active and has a slot, and a doctor's slots
\* leave only times equal to a slot's end uncovered.
C9_Witness ==
    /\ last.op = "book_appointment"
    /\ last.res = "NoAvailability"
    /\ \A doctor \in Doctors :
          /\ doctor_active[doctor]
          /\ \A d \in Dates, t \in Times :
                (d >= Today /\ ~SlotCovers(doctor, d, t))
                => \E s \in availability :
                       /\ s.doctor_id = doctor
                       /\ s.available_date = d
                       /\ s.end_time = t
====
